---- MODULE Spec2Model ----
(***************************************************************************)
(* NewsVerifyAI: the claim verification pipeline (app/services/verifier.py *)
(* with news_client.py, llm_client.py, nlp.py, schemas.py, models.py).     *)
(*                                                                         *)
(* Conventions of the model                                                *)
(*  - a Python str is a sequence of one-character strings; a message the   *)
(*    code builds from literals is a sequence of pieces, each literal one  *)
(*    piece (the Russian literals are rendered in ASCII);                  *)
(*  - Python None, where a str is expected, is the sequence None;          *)
(*  - a probability is an integer number of hundredths (0.9 is 90);        *)
(*  - sha256 is taken as injective: a digest is represented by the bytes   *)
(*    fed to the hash;                                                     *)
(*  - a JSON document is a record that says which keys are present.        *)
(***************************************************************************)
EXTENDS Integers, Sequences, FiniteSets, TLC

\* ------------------------------------------------------------------ bounds
NumProcs == 2        \* verify_claim coroutines that may run at the same time
MaxArticles == 2     \* articles in one provider response

Procs == 1..NumProcs

\* ------------------------------------------------------------ Python values
None == <<"None">>
NoProb == -1         \* probability None

Truthy(s) == s # None /\ s # <<>>            \* bool(s) of an Optional[str]

UpperCase == {"A"}
LowerCase == {"a", "b", "c", "d", "e"}
WhiteSpace == {" ", "\t"}

Lower(c) == IF c = "A" THEN "a" ELSE c
LowerStr(s) == [i \in 1..Len(s) |-> Lower(s[i])]

\* the text used as it came (no strip)
NoStrip(s) == s

\* str.strip()
RECURSIVE LStrip(_)
LStrip(s) == IF s # <<>> /\ Head(s) \in WhiteSpace THEN LStrip(Tail(s)) ELSE s
RECURSIVE RStrip(_)
RStrip(s) ==
    IF s # <<>> /\ s[Len(s)] \in WhiteSpace THEN RStrip(SubSeq(s, 1, Len(s) - 1)) ELSE s
Strip(s) == RStrip(LStrip(s))

\* the maximal runs of characters of `class` in s, left to right: re.findall
\* of a pattern [class]+
RECURSIVE Runs(_, _, _)
Runs(s, class, cur) ==
    IF s = <<>> THEN (IF cur = <<>> THEN <<>> ELSE <<cur>>)
    ELSE IF Head(s) \in class THEN Runs(Tail(s), class, Append(cur, Head(s)))
    ELSE (IF cur = <<>> THEN <<>> ELSE <<cur>>) \o Runs(Tail(s), class, <<>>)

Range(f) == {f[i] : i \in DOMAIN f}

\* list(dict.fromkeys(xs)): first occurrences, order kept
RECURSIVE Dedup(_)
Dedup(xs) ==
    IF xs = <<>> THEN <<>>
    ELSE LET r == Dedup(SubSeq(xs, 1, Len(xs) - 1))
             x == xs[Len(xs)]
         IN IF x \in Range(r) THEN r ELSE Append(r, x)

\* sep.join(parts) for parts that are sequences of pieces
RECURSIVE Join(_, _)
Join(sep, parts) ==
    IF parts = <<>> THEN <<>>
    ELSE IF Len(parts) = 1 THEN parts[1]
    ELSE parts[1] \o sep \o Join(sep, Tail(parts))

\* ------------------------------------------------------------------ inputs
Styles == {"formal", "simple"}
StyleBytes(style) ==
    IF style = "formal" THEN <<"f", "o", "r", "m", "a", "l">>
    ELSE <<"s", "i", "m", "p", "l", "e">>

TextPlain == <<"a", "b", " ", "c", "d">>                 \* no word of 3 letters
TextPadded == <<" ", "a", "b", " ", "c", "d", " ">>      \* the same, untrimmed
TextKw == <<"A", "b", "c", " ", "d", "e">>               \* one keyword, one entity
Texts == {TextPlain, TextPadded, TextKw}

\* ------------------------------------------------------- schemas.py objects
Statuses == {"confirmed", "not_found", "uncertain"}
NewsSourceFields == {"title", "description", "url", "published_at", "source_name"}

\* NewsSource(**kw) as pydantic v1 builds it: unknown keywords (summary) are
\* ignored, title and url are required and not None.
NewsSourceValid(kw) == kw.title # None /\ kw.url # None
NewsSource(kw) ==
    [title |-> kw.title, description |-> kw.description, url |-> kw.url,
     published_at |-> kw.published_at, source_name |-> kw.source_name]

\* getattr(item, name) of a NewsSource; Missing when the model has no such field
Missing == <<"AttributeError">>
GetAttr(item, name) ==
    CASE name = "title" -> item.title
      [] name = "description" -> item.description
      [] name = "url" -> item.url
      [] name = "published_at" -> item.published_at
      [] name = "source_name" -> item.source_name
      [] OTHER -> Missing

\* ClaimAnalysis(...): status is one of the literals, probability None or in [0,1]
ClaimAnalysisValid(status, probability) ==
    /\ status \in Statuses
    /\ probability = NoProb \/ (probability >= 0 /\ probability <= 100)
ClaimAnalysis(status, probability, explanation, matched_sources) ==
    [status |-> status, probability |-> probability, explanation |-> explanation,
     matched_sources |-> matched_sources]
CheckResponse(claim, style, analysis, cached) ==
    [claim |-> claim, style |-> style, analysis |-> analysis, cached |-> cached]

\* --------------------------------------------------------------- nlp.py
EmptyBag == [PERSON |-> <<>>, ORG |-> <<>>, GPE |-> <<>>, DATE |-> <<>>]
EntityLabels == <<"PERSON", "ORG", "GPE", "DATE">>

\* re.findall(r"\b[A-Z][a-zA-Z]+\b", text): over the model alphabet (letters
\* and blanks) the words that start with a capital and have two letters or more
Capitalized(text) ==
    SelectSeq(Runs(text, UpperCase \cup LowerCase, <<>>),
              LAMBDA w : w[1] \in UpperCase /\ Len(w) >= 2)

\* what spaCy's doc.ents holds for a text: the statistical model is an input,
\* here one that labels the capitalized words PERSON
NerOutcomes(text) == {[EmptyBag EXCEPT !.PERSON = Capitalized(text)]}

\* extract_entities(text): the results it can give, with spaCy loaded (the
\* labelled entities) and without (the capitalized words as ORG)
extract_entities(text) ==
    { [b EXCEPT !.PERSON = Dedup(b.PERSON), !.ORG = Dedup(b.ORG),
                !.GPE = Dedup(b.GPE), !.DATE = Dedup(b.DATE)] :
      b \in NerOutcomes(text) \cup {[EmptyBag EXCEPT !.ORG = Capitalized(text)]} }

\* ------------------------------------------------------------ verifier.py
\* STOP_WORDS are Cyrillic words; none can be written in the model alphabet
STOP_WORDS == {}
WordChars == UpperCase \cup LowerCase \cup {"%"}

\* WORD_PATTERN.findall(s.lower()) less the short words and the stop words
Tokens(s) ==
    {t \in Range(Runs(LowerStr(s), WordChars, <<>>)) : Len(t) >= 3 /\ t \notin STOP_WORDS}

\* a fingerprint of the text alone
_hash_claimTextOnly(text, style) == Strip(text)

_hash_claim(text, style) == Strip(text) \o StyleBytes(style)

_collect_keywords(claim, entities) ==
    Tokens(claim) \cup
    UNION {Tokens(v) : v \in UNION {Range(entities[k]) : k \in DOMAIN entities}}

\* `kw in text`
Contains(text, kw) ==
    \E i \in 0..(Len(text) - Len(kw)) : SubSeq(text, i + 1, i + Len(kw)) = kw

\* the attributes line 171 reads from every item
FilterAttrs == <<"title", "description", "summary", "source_name">>

\* " ".join(filter(None, [...])).lower() of line 171
ItemText(item) ==
    LowerStr(Join(<<" ">>,
        SelectSeq([i \in 1..Len(FilterAttrs) |-> GetAttr(item, FilterAttrs[i])], Truthy)))

Hits(item, keywords) == Cardinality({kw \in keywords : Contains(ItemText(item), kw)})

\* _filter_news_by_keywords: raised is the AttributeError of reading an
\* attribute that NewsSource does not have, which the first item already meets
_filter_news_by_keywords(news_list, keywords) ==
    IF keywords = {} THEN [raised |-> FALSE, value |-> news_list]
    ELSE IF news_list # <<>> /\ \E i \in 1..Len(FilterAttrs) :
                                   GetAttr(news_list[1], FilterAttrs[i]) = Missing
    THEN [raised |-> TRUE, value |-> <<>>]
    ELSE LET min_hits == IF Cardinality(keywords) <= 3 THEN 1 ELSE 2
         IN [raised |-> FALSE,
             value |-> SelectSeq(news_list, LAMBDA item : Hits(item, keywords) >= min_hits)]

\* f"{probability:.2f}"
Digit(n) == CASE n = 0 -> "0" [] n = 1 -> "1" [] n = 2 -> "2" [] n = 3 -> "3"
              [] n = 4 -> "4" [] n = 5 -> "5" [] n = 6 -> "6" [] n = 7 -> "7"
              [] n = 8 -> "8" [] OTHER -> "9"
Fmt2f(p) == <<Digit(p \div 100), ".", Digit((p % 100) \div 10), Digit(p % 10)>>

StatusHuman(status) ==
    CASE status = "confirmed" -> "confirmed by news sources"
      [] status = "not_found" -> "no confirmation found in the news (low probability of the event)"
      [] status = "uncertain" -> "no direct confirmation (the event is moderately plausible)"
      [] OTHER -> status

\* f"{k}: {', '.join(vals)}" for the categories that are not empty
EntParts(entities) ==
    LET part(k) == <<k, ": ">> \o Join(<<", ">>, entities[k])
        keep == SelectSeq(EntityLabels, LAMBDA k : entities[k] # <<>>)
    IN [i \in 1..Len(keep) |-> part(keep[i])]

_format_formal_explanation(claim, status, probability, entities, news_count, base_explanation) ==
    LET prob_text == IF probability # NoProb THEN Fmt2f(probability) ELSE <<"undefined">>
        ent_parts == EntParts(entities)
        entities_text == IF ent_parts # <<>> THEN Join(<<"; ">>, ent_parts)
                         ELSE <<"no key entities extracted">>
    IN <<"An automatic check of the claim was made: <<">> \o claim \o
       <<">>. From the news publications and the extracted entities the system concluded: ",
         StatusHuman(status), ". Estimated probability that the event is true: ">> \o
       prob_text \o <<". Extracted entities: ">> \o entities_text \o
       <<". Relevant publications in the last week: ", Digit(news_count),
         ". Additional analysis (AI): ">> \o base_explanation \o
       <<" The conclusion is probabilistic and has no legal force.">>

InsufficientData == <<"No data for an estimate.">>

\* the bands taken as exclusive at their lower ends
_format_simple_explanationExclusive(status, probability) ==
    IF probability = NoProb THEN InsufficientData
    ELSE LET base == CASE status = "confirmed" -> "Found confirmation in the news."
                       [] status = "not_found" ->
                            "Found no confirmation in the news. The event is unlikely."
                       [] OTHER -> "No direct confirmation."
             prob_text == IF probability > 80 THEN "Probably true."
                          ELSE IF probability > 50 THEN "Looks true, but not certain."
                          ELSE IF probability > 30 THEN "Doubtful."
                          ELSE "Unlikely."
         IN <<base, " ", prob_text>>

_format_simple_explanation(status, probability) ==
    IF probability = NoProb THEN InsufficientData
    ELSE LET base == CASE status = "confirmed" -> "Found confirmation in the news."
                       [] status = "not_found" ->
                            "Found no confirmation in the news. The event is unlikely."
                       [] OTHER -> "No direct confirmation."
             prob_text == IF probability >= 80 THEN "Probably true."
                          ELSE IF probability >= 50 THEN "Looks true, but not certain."
                          ELSE IF probability >= 30 THEN "Doubtful."
                          ELSE "Unlikely."
         IN <<base, " ", prob_text>>

\* lines 285-289: the explanation in the style of the request
Explain(style, claim_text, status_, probability_, entities_, news_count, base_explanation) ==
    IF style = "formal"
    THEN _format_formal_explanation(claim_text, status_, probability_, entities_, news_count,
                                    base_explanation)
    ELSE _format_simple_explanation(status_, probability_)

\* ------------------------------------------- the cached JSON (result_json)
\* serialization that leaves the url out of every item
ItemJsonNoUrl(ns) ==
    [is_dict |-> TRUE, keys |-> NewsSourceFields \ {"url"}, title |-> ns.title,
     description |-> ns.description, url |-> None,
     published_at |-> ns.published_at, source_name |-> ns.source_name, text |-> None]

\* resp_obj.json(): every field of every model is written
ItemJson(ns) ==
    [is_dict |-> TRUE, keys |-> NewsSourceFields, title |-> ns.title,
     description |-> ns.description, url |-> ns.url,
     published_at |-> ns.published_at, source_name |-> ns.source_name, text |-> None]

ToJson(resp) ==
    [claim |-> resp.claim, style |-> resp.style, analysis_is_dict |-> TRUE,
     analysis |-> [status |-> resp.analysis.status,
                   probability |-> resp.analysis.probability,
                   explanation |-> resp.analysis.explanation,
                   ms |-> "list",
                   matched_sources |-> [i \in 1..Len(resp.analysis.matched_sources) |->
                                           ItemJson(resp.analysis.matched_sources[i])]],
     cached |-> resp.cached]

\* item.get(key) of a JSON object
ItemGet(item, key) ==
    IF key \notin item.keys THEN None
    ELSE CASE key = "title" -> item.title
           [] key = "description" -> item.description
           [] key = "url" -> item.url
           [] key = "published_at" -> item.published_at
           [] OTHER -> item.source_name

\* the check without the test for the url key
_is_cache_entry_modernTitleOnly(data) ==
    IF ~data.analysis_is_dict THEN FALSE
    ELSE IF data.analysis.ms = "absent" THEN TRUE
    ELSE IF data.analysis.ms # "list" THEN FALSE
    ELSE \A i \in 1..Len(data.analysis.matched_sources) :
            LET item == data.analysis.matched_sources[i]
            IN item.is_dict /\ Truthy(ItemGet(item, "title"))

_is_cache_entry_modern(data) ==
    IF ~data.analysis_is_dict THEN FALSE
    ELSE IF data.analysis.ms = "absent" THEN TRUE
    ELSE IF data.analysis.ms # "list" THEN FALSE
    ELSE \A i \in 1..Len(data.analysis.matched_sources) :
            LET item == data.analysis.matched_sources[i]
            IN /\ item.is_dict
               /\ Truthy(ItemGet(item, "title"))
               /\ "url" \in item.keys

\* CheckResponse(**data) of line 204: pydantic validates the stored document
DataValid(data) ==
    /\ data.style \in Styles
    /\ data.analysis_is_dict
    /\ ClaimAnalysisValid(data.analysis.status, data.analysis.probability)
    /\ data.analysis.explanation # None
    /\ data.analysis.ms \in {"absent", "list"}
    /\ \A i \in 1..Len(data.analysis.matched_sources) :
          LET item == data.analysis.matched_sources[i]
          IN item.is_dict /\
             NewsSourceValid([title |-> ItemGet(item, "title"), url |-> ItemGet(item, "url")])

FromJson(data, cached) ==
    CheckResponse(data.claim, data.style,
        ClaimAnalysis(data.analysis.status, data.analysis.probability,
            data.analysis.explanation,
            [i \in 1..Len(data.analysis.matched_sources) |->
                LET item == data.analysis.matched_sources[i]
                IN NewsSource([title |-> ItemGet(item, "title"),
                               description |-> ItemGet(item, "description"),
                               url |-> ItemGet(item, "url"),
                               published_at |-> ItemGet(item, "published_at"),
                               source_name |-> ItemGet(item, "source_name")])]),
        cached)

\* ------------------------------------------------------- news_client.py
Untitled == <<"Untitled">>
SomeUrl == <<"u">>
SomeDate == <<"2024-05-01T10:00:00">>
BadDate == <<"not a date">>

\* articles of the provider's JSON; source is "absent", "null" or "object"
ArtBare ==
    [title |-> <<"A", "b", "c">>, description |-> None, content |-> None,
     url |-> SomeUrl, publishedAt |-> None, source |-> "absent", source_name |-> None]
ArtNoTitle ==
    [title |-> None, description |-> <<"a", "b">>, content |-> None,
     url |-> SomeUrl, publishedAt |-> SomeDate, source |-> "object",
     source_name |-> <<"d", "e">>]
ArtNoUrl == [ArtBare EXCEPT !.url = None]
Articles == {ArtBare, ArtNoTitle, ArtNoUrl}

\* the body of the loop of lines 76-95 for one article
ArticleKw(a) ==
    [title |-> IF Truthy(a.title) THEN a.title ELSE Untitled,
     description |-> a.description,
     summary |-> IF Truthy(a.content) THEN a.content ELSE a.description,
     url |-> a.url,
     published_at |-> a.publishedAt,
     source_name |-> IF a.source = "object" THEN a.source_name ELSE None]

\* what makes the loop raise: a null source object, an unparsable date, or a
\* NewsSource that does not validate
ArticleRaises(a) ==
    \/ a.source = "null"
    \/ a.publishedAt = BadDate
    \/ ~NewsSourceValid(ArticleKw(a))

\* the request went out and search took one of its error exits (lines 64-66,
\* 104-106), each of which logs an error
NewsClient_failed(api_key, reply) ==
    /\ api_key
    /\ \/ reply.kind # "ok"
       \/ \E i \in 1..Len(reply.articles) : ArticleRaises(reply.articles[i])

\* search that keeps the articles built before the one that fails
NewsClient_searchPartial(api_key, reply) ==
    IF ~api_key THEN <<>>
    ELSE IF reply.kind # "ok" THEN <<>>
    ELSE LET bad == {i \in 1..Len(reply.articles) : ArticleRaises(reply.articles[i])}
             n == IF bad = {} THEN Len(reply.articles)
                  ELSE (CHOOSE i \in bad : \A j \in bad : i <= j) - 1
         IN [i \in 1..n |-> NewsSource(ArticleKw(reply.articles[i]))]

\* NewsClient.search: reply is what the provider does with the one request
\* that is made when the key is set
NewsClient_search(api_key, reply) ==
    IF ~api_key THEN <<>>
    ELSE IF reply.kind # "ok" THEN <<>>
    ELSE IF \E i \in 1..Len(reply.articles) : ArticleRaises(reply.articles[i]) THEN <<>>
    ELSE [i \in 1..Len(reply.articles) |-> NewsSource(ArticleKw(reply.articles[i]))]

RECURSIVE SeqsUpTo(_, _)
SeqsUpTo(S, n) ==
    IF n = 0 THEN {<<>>}
    ELSE LET shorter == SeqsUpTo(S, n - 1)
         IN shorter \cup {Append(q, x) : q \in shorter, x \in S}

\* news_payload = filtered_news[:5] (line 241)
MaxSources == 5

\* a longer response: n articles, the two valid kinds in turn
Page(n) == [i \in 1..n |-> IF i % 2 = 1 THEN ArtBare ELSE ArtNoTitle]

NewsReplies ==
    {[kind |-> "status", articles |-> <<>>], [kind |-> "exception", articles |-> <<>>]}
    \cup {[kind |-> "ok", articles |-> as] : as \in SeqsUpTo(Articles, MaxArticles)}
    \cup {[kind |-> "ok", articles |-> Page(3)], [kind |-> "ok", articles |-> Page(MaxSources + 1)]}

\* --------------------------------------------------------- llm_client.py
\* The text of a completion is a sequence of segments: prose without braces,
\* a well-formed JSON object, a JSON value that is no object (a list, a
\* number), a lone "{" or a lone "}".
RawProbs == {[kind |-> "num", v |-> x] : x \in {39, 40, 150}}
LLMText == <<"The claim is plausible because ...">>

Prose == [k |-> "prose", probability |-> [kind |-> "bad", v |-> 0], explanation |-> None]
Value == [Prose EXCEPT !.k = "value"]
LBrace == [Prose EXCEPT !.k = "lbrace"]
RBrace == [Prose EXCEPT !.k = "rbrace"]
Obj(pr, ex) == [k |-> "obj", probability |-> pr, explanation |-> ex]
SomeObj == Obj([kind |-> "num", v |-> 40], LLMText)
LLMObjects == {Obj(pr, LLMText) : pr \in RawProbs} \cup {[SomeObj EXCEPT !.explanation = None]}

Contents ==
    {<<o>> : o \in LLMObjects}
    \cup {<<>>, <<Prose>>, <<Value>>, <<Prose, SomeObj, Prose>>,
          <<Prose, SomeObj, Prose, LBrace, Prose, RBrace>>, <<RBrace, Prose, LBrace>>}

HasOpen(seg) == seg.k \in {"obj", "lbrace"}
HasClose(seg) == seg.k \in {"obj", "rbrace"}

\* json.loads(text): the text is one JSON value
Decodes(segs) == Len(segs) = 1 /\ segs[1].k \in {"obj", "value"}

\* _JSON_PATTERN.search(content).group(): from the first "{" to the last "}"
\* (the pattern is greedy); <<>> stands for no match
JsonPatternMatch(content) ==
    LET opens == {i \in 1..Len(content) : HasOpen(content[i])}
        closes == {i \in 1..Len(content) : HasClose(content[i])}
    IN IF opens = {} \/ closes = {} THEN <<>>
       ELSE LET first == CHOOSE i \in opens : \A j \in opens : i <= j
                last == CHOOSE i \in closes : \A j \in closes : j <= i
            IN IF first = last \/ first < last THEN SubSeq(content, first, last)
               ELSE <<>>

\* float(probability) then max(0.0, min(1.0, .)); 0.5 when float() raises
\* TypeError or ValueError.  A JSON number and a numeric text ("0.7") convert;
\* an integer beyond the range of a float ("huge") makes float() raise
\* OverflowError, which line 217 does not catch.
Coerce(raw) == IF raw.kind \in {"num", "numstr"} THEN raw.v ELSE 50
CoerceRaises(raw) == raw.kind = "huge"
Clamp(x) == IF x < 0 THEN 0 ELSE IF x > 100 THEN 100 ELSE x

EmptyLLMExplanation == <<"LLM returned an empty explanation.">>
Unparsable == <<"AI analysis returned an answer that could not be parsed.">>
Unavailable(e) == <<"AI analysis is temporarily unavailable: ", e>>
NoResult == <<"AI analysis gave no results.">>
EmptyExplanation == <<"AI analysis returned an empty explanation.">>
TimedOut ==
    <<"AI analysis did not finish in the allotted time (timeout). A heuristic estimate was used.">>
NoAnalysis == <<"AI analysis is unavailable or gave no result. A heuristic estimate was used.">>

\* a result of analyze or of _parse_llm_response: kind is "none" (None),
\* "pair" (a tuple) or "raise" (an exception leaves the function)
Pair(p, e) == [kind |-> "pair", probability |-> p, explanation |-> e]
NoneResult == [kind |-> "none", probability |-> NoProb, explanation |-> None]
Raise(e) == [kind |-> "raise", probability |-> NoProb, explanation |-> <<e>>]

_parse_llm_response(content) ==
    LET match == JsonPatternMatch(content)
        json_candidate == IF Decodes(content) THEN content[1] ELSE match[1]
    IN IF ~Decodes(content) /\ (match = <<>> \/ ~Decodes(match)) THEN NoneResult
       ELSE IF json_candidate.k # "obj" THEN Raise("AttributeError")
       ELSE IF CoerceRaises(json_candidate.probability) THEN Raise("OverflowError")
       ELSE Pair(Clamp(Coerce(json_candidate.probability)),
                 IF Truthy(json_candidate.explanation) THEN json_candidate.explanation
                 ELSE EmptyLLMExplanation)

\* analyze that parses the body whatever the status
LLMClient_analyzeStatusIgnored(api_key, reply) ==
    IF ~api_key THEN NoneResult
    ELSE IF reply.kind = "exception" THEN Pair(30, Unavailable("ConnectError"))
    ELSE LET parsed == _parse_llm_response(reply.content)
         IN IF parsed.kind = "raise" THEN Pair(30, Unavailable(parsed.explanation[1]))
            ELSE IF parsed.kind = "none" THEN Pair(30, Unparsable)
            ELSE parsed

\* analyze that lets an exception of the parser through
LLMClient_analyzeUnguarded(api_key, reply) ==
    IF ~api_key THEN NoneResult
    ELSE IF reply.kind = "exception" THEN Pair(30, Unavailable("ConnectError"))
    ELSE IF reply.kind = "status" THEN NoneResult
    ELSE LET parsed == _parse_llm_response(reply.content)
         IN IF parsed.kind = "none" THEN Pair(30, Unparsable)
            ELSE parsed

\* LLMClient.analyze: reply is what the provider does with the request
LLMClient_analyze(api_key, reply) ==
    IF ~api_key THEN NoneResult
    ELSE IF reply.kind = "exception" THEN Pair(30, Unavailable("ConnectError"))
    ELSE IF reply.kind = "status" THEN NoneResult
    ELSE LET parsed == _parse_llm_response(reply.content)
         IN IF parsed.kind = "raise" THEN Pair(30, Unavailable(parsed.explanation[1]))
            ELSE IF parsed.kind = "none" THEN Pair(30, Unparsable)
            ELSE parsed

LLMReplies ==
    {[kind |-> "status", content |-> <<>>], [kind |-> "exception", content |-> <<>>]}
    \cup {[kind |-> "ok", content |-> c] : c \in Contents}

\* ------------------------------------------------------------------ state
VARIABLES
    cache,              \* table cached_results: claim_hash -> parsed result_json
    NEWSAPI_KEY,        \* bool(settings.NEWSAPI_KEY)
    OPENAI_API_KEY,     \* bool(settings.OPENAI_API_KEY)
    pc,                 \* where each verify_claim coroutine stands
    payload,            \* its CheckRequest
    claim, claim_hash,  \* locals of verify_claim
    cached,             \* what line 198 found: "absent", "modern" or "legacy"
    entities, keyword_candidates,
    news_results, filtered_news,
    status, probability, explanation_base, news_payload,
    resp,               \* the CheckResponse returned
    exc,                \* the exception that left verify_claim, "" when none
    calls,              \* log of the steps a request has gone through
    inflight,           \* the awaited provider calls that have not returned
    args,               \* the arguments of a function called on its own
    ret                 \* <<>> until that call ends, then <<its result>>

globals == <<cache, NEWSAPI_KEY, OPENAI_API_KEY>>
request == <<payload, claim, claim_hash, cached, entities, keyword_candidates>>
verdict == <<news_results, filtered_news, status, probability, explanation_base, news_payload>>
outcome == <<resp, exc>>
unit == <<args, ret>>
vars == <<globals, pc, request, verdict, outcome, calls, inflight, unit>>

NoText == <<>>
NoResp == CheckResponse(NoText, "", ClaimAnalysis("", NoProb, NoText, <<>>), FALSE)
NoPayload == [text |-> NoText, style |-> ""]

\* rows an earlier release of the service may have left in the table, for a
\* request (text, style): written before matched_sources existed, with the
\* headlines as bare strings, with items that lack the title or the url key,
\* or with an analysis that is no object
LegacyAnalysis(ms, items) ==
    [status |-> "not_found", probability |-> 30,
     explanation |-> _format_simple_explanation("not_found", 30),
     ms |-> ms, matched_sources |-> items]
BareString == [ItemJson(NewsSource(ArticleKw(ArtBare))) EXCEPT
                  !.is_dict = FALSE, !.keys = {}, !.text = <<"A", "b", "c">>]
NoUrlKey == [ItemJson(NewsSource(ArticleKw(ArtBare))) EXCEPT
                  !.keys = NewsSourceFields \ {"url"}, !.url = None]
NoTitleKey == [ItemJson(NewsSource(ArticleKw(ArtBare))) EXCEPT
                  !.keys = NewsSourceFields \ {"title"}, !.title = None]
\* an old item with the url key and no url ("url": null), as
\* _normalize_cached_result wrote it (line 78) and as the comment of line 50
\* expects: _is_cache_entry_modern accepts it, NewsSource (url: str) does not
UrlNull == [ItemJson(NewsSource(ArticleKw(ArtBare))) EXCEPT !.url = None]
LegacyRows(text, style) ==
    {[claim |-> Strip(text), style |-> style, analysis_is_dict |-> TRUE,
      analysis |-> a, cached |-> FALSE] :
        a \in {LegacyAnalysis("absent", <<>>), LegacyAnalysis("list", <<BareString>>),
               LegacyAnalysis("list", <<NoUrlKey>>), LegacyAnalysis("list", <<NoTitleKey>>),
               LegacyAnalysis("list", <<UrlNull>>)}}
    \cup {[claim |-> Strip(text), style |-> style, analysis_is_dict |-> FALSE,
           analysis |-> LegacyAnalysis("absent", <<>>), cached |-> FALSE]}

\* the requests whose row the table may hold when the service starts
LegacyRequests ==
    {[text |-> TextPlain, style |-> "simple"], [text |-> TextKw, style |-> "formal"]}

EmptyCache == [h \in {} |-> NoResp]

\* no request has arrived yet
Idle ==
    /\ pc = [p \in Procs |-> "idle"]
    /\ payload = [p \in Procs |-> NoPayload]
    /\ claim = [p \in Procs |-> NoText]
    /\ claim_hash = [p \in Procs |-> NoText]
    /\ cached = [p \in Procs |-> ""]
    /\ entities = [p \in Procs |-> EmptyBag]
    /\ keyword_candidates = [p \in Procs |-> {}]
    /\ news_results = [p \in Procs |-> <<>>]
    /\ filtered_news = [p \in Procs |-> <<>>]
    /\ status = [p \in Procs |-> ""]
    /\ probability = [p \in Procs |-> NoProb]
    /\ explanation_base = [p \in Procs |-> NoText]
    /\ news_payload = [p \in Procs |-> <<>>]
    /\ resp = [p \in Procs |-> NoResp]
    /\ exc = [p \in Procs |-> ""]
    /\ calls = [p \in Procs |-> <<>>]
    /\ inflight = [p \in Procs |-> {}]

NoArgs == [fn |-> ""]

Init ==
    /\ \/ cache = EmptyCache
       \/ \E r \in LegacyRequests : \E row \in LegacyRows(r.text, r.style) :
             cache = (_hash_claim(r.text, r.style) :> row)
    /\ NEWSAPI_KEY \in BOOLEAN
    /\ OPENAI_API_KEY \in BOOLEAN
    /\ Idle
    /\ args = NoArgs
    /\ ret = <<>>

\* ---------------------------------------------------------------- actions
Count(trace, step) == Cardinality({i \in 1..Len(trace) : trace[i] = step})

\* a failure of the database itself (connection lost, disk full)
DbOutcomes == {"ok", "OperationalError"}

\* a store that commits nothing
InsertNothing(rows, h, doc) == rows

\* lines 305-307: db.add(CachedResult(claim_hash, result_json)) and commit,
\* for a key the table does not hold
Insert(rows, h, doc) == rows @@ (h :> doc)

\* lines 282-310: log the verdict, format, build the response, insert, return.
\* The locals of a call that raises are gone with its frame: they keep the
\* values they had when its last step began.
Finish(p, st, prob, base, news, trace, rows, db) ==
    LET style == payload[p].style
        explanation == Explain(style, claim[p], st, prob, entities[p], Len(news), base)
        resp_obj == CheckResponse(claim[p], style,
                                  ClaimAnalysis(st, prob, explanation, news), FALSE)
        done(e, tr) == /\ exc' = [exc EXCEPT ![p] = e]
                       /\ pc' = [pc EXCEPT ![p] = IF e = "" THEN "done" ELSE "raised"]
                       /\ calls' = [calls EXCEPT ![p] = tr]
        keep == UNCHANGED <<resp, status, probability, explanation_base, news_payload>>
    IN IF prob = NoProb
       THEN done("TypeError", trace) /\ cache' = rows /\ keep
       ELSE IF ~ClaimAnalysisValid(st, prob)
       THEN done("ValidationError", trace \o <<"format">>) /\ cache' = rows /\ keep
       ELSE IF db # "ok"
       THEN done(db, trace \o <<"format", "store">>) /\ cache' = rows /\ keep
       ELSE IF claim_hash[p] \in DOMAIN rows
       THEN done("IntegrityError", trace \o <<"format", "store">>) /\ cache' = rows /\ keep
       ELSE /\ status' = [status EXCEPT ![p] = st]
            /\ probability' = [probability EXCEPT ![p] = prob]
            /\ explanation_base' = [explanation_base EXCEPT ![p] = base]
            /\ news_payload' = [news_payload EXCEPT ![p] = news]
            /\ cache' = Insert(rows, claim_hash[p], ToJson(resp_obj))
            /\ resp' = [resp EXCEPT ![p] = resp_obj]
            /\ done("", trace \o <<"format", "store", "return">>)

\* the fallback analysis made whatever the search found
NeverCorroborated(filtered) == FALSE

\* line 226: `if filtered_news:`
Corroborated(filtered) == filtered # <<>>

\* a confirmed verdict that reports no source
ConfirmedJudgmentNoSources(filtered) ==
    [status |-> "confirmed", probability |-> 90,
     explanation_base |-> <<"The news publications found probably confirm the claim. Matches found: ",
                            Digit(Len(filtered)), ".">>,
     news_payload |-> <<>>]

\* every corroborating item reported, however many
ConfirmedJudgmentUncapped(filtered) ==
    [status |-> "confirmed", probability |-> 90,
     explanation_base |-> <<"The news publications found probably confirm the claim. Matches found: ",
                            Digit(Len(filtered)), ".">>,
     news_payload |-> filtered]

\* corroboration taken as certainty
ConfirmedJudgmentCertain(filtered) ==
    [status |-> "confirmed", probability |-> 100,
     explanation_base |-> <<"The news publications found probably confirm the claim. Matches found: ",
                            Digit(Len(filtered)), ".">>,
     news_payload |-> SubSeq(filtered, 1, IF Len(filtered) < 5 THEN Len(filtered) ELSE 5)]

\* lines 235-241: the verdict of the confirmed branch
ConfirmedJudgment(filtered) ==
    [status |-> "confirmed", probability |-> 90,
     explanation_base |-> <<"The news publications found probably confirm the claim. Matches found: ",
                            Digit(Len(filtered)), ".">>,
     news_payload |-> SubSeq(filtered, 1, IF Len(filtered) < 5 THEN Len(filtered) ELSE 5)]

\* the threshold taken as exclusive
FallbackStatusExclusive(prob) ==
    IF prob # NoProb /\ prob > 40 THEN "uncertain" ELSE "not_found"

\* line 278
FallbackStatus(prob) == IF prob # NoProb /\ prob >= 40 THEN "uncertain" ELSE "not_found"

\* the timeout left to the handler of Exception (lines 270-273)
TimeoutAsException == Pair(30, Unavailable(""))

\* lines 266-269: the handler of asyncio.TimeoutError
TimeoutJudgment == Pair(30, TimedOut)

\* an absent result taken as an even chance
ResultJudgmentNeutral(result) ==
    IF result.kind # "pair" THEN Pair(50, NoResult)
    ELSE IF ~Truthy(result.explanation) THEN Pair(result.probability, EmptyExplanation)
    ELSE result

\* lines 254-261: what the orchestrator makes of the analyzer's result
ResultJudgment(result) ==
    IF result.kind # "pair" THEN Pair(30, NoResult)
    ELSE IF ~Truthy(result.explanation) THEN Pair(result.probability, EmptyExplanation)
    ELSE result

\* lines 224-252: filter, then either the confirmed branch through to the
\* return, or the call of the analyzer under wait_for
AfterSearch(p, kws, news, trace, rows, db) ==
    LET f == _filter_news_by_keywords(news, kws)
    IN /\ news_results' = [news_results EXCEPT ![p] = news]
       /\ filtered_news' = [filtered_news EXCEPT ![p] = f.value]
       /\ IF f.raised
          THEN /\ exc' = [exc EXCEPT ![p] = "AttributeError"]
               /\ pc' = [pc EXCEPT ![p] = "raised"]
               /\ calls' = [calls EXCEPT ![p] = trace \o <<"filter">>]
               /\ inflight' = [inflight EXCEPT ![p] = {}]
               /\ cache' = rows
               /\ UNCHANGED <<resp, status, probability, explanation_base, news_payload>>
          ELSE IF Corroborated(f.value)
          THEN /\ LET j == ConfirmedJudgment(f.value)
                  IN Finish(p, j.status, j.probability, j.explanation_base, j.news_payload,
                            trace \o <<"filter">>, rows, db)
               /\ inflight' = [inflight EXCEPT ![p] = {}]
          ELSE /\ pc' = [pc EXCEPT ![p] = "analyze"]
               /\ calls' = [calls EXCEPT ![p] = trace \o <<"filter", "analyze">>]
               /\ inflight' = [inflight EXCEPT ![p] = {"analyze"}]
               /\ cache' = rows
               /\ UNCHANGED <<resp, exc, status, probability, explanation_base,
                              news_payload>>

\* lines 185-223: a request arrives (main.py has checked that the trimmed text
\* has 5 characters or more); fingerprint, cache lookup, the hit or the
\* eviction, extraction, and the call of the search.  db_read and db_evict are
\* the outcomes of the query and of the delete-and-commit.  given tells that
\* the caller passed a news_client (line 185 keeps it): its search is awaited
\* and NewsClient.search is not entered, so no provider request is logged.
Begin(p, text, style, db_read, db_evict, given) ==
    LET c == Strip(text)
        h == _hash_claim(c, style)
        found == h \in DOMAIN cache
        modern == found /\ _is_cache_entry_modern(cache[h])
        fail(e, tr) ==
            /\ exc' = [exc EXCEPT ![p] = e]
            /\ pc' = [pc EXCEPT ![p] = "raised"]
            /\ calls' = [calls EXCEPT ![p] = tr]
            /\ UNCHANGED <<cache, resp, entities, keyword_candidates, verdict, inflight>>
    IN /\ pc[p] = "idle"
       /\ Len(c) >= 5
       /\ (db_read # "ok" \/ ~found \/ modern) => db_evict = "ok"   \* no delete is made
       /\ payload' = [payload EXCEPT ![p] = [text |-> text, style |-> style]]
       /\ claim' = [claim EXCEPT ![p] = c]
       /\ claim_hash' = [claim_hash EXCEPT ![p] = h]
       /\ cached' = [cached EXCEPT ![p] =
             IF db_read # "ok" THEN "" ELSE IF ~found THEN "absent"
             ELSE IF modern THEN "modern" ELSE "legacy"]
       /\ UNCHANGED <<NEWSAPI_KEY, OPENAI_API_KEY>>
       /\ IF db_read # "ok" THEN fail(db_read, <<"cache_check">>)
          ELSE IF modern /\ ~DataValid(cache[h])
          THEN fail("ValidationError", <<"cache_check">>)
          ELSE IF modern
          THEN /\ resp' = [resp EXCEPT ![p] = FromJson(cache[h], TRUE)]
               /\ pc' = [pc EXCEPT ![p] = "done"]
               /\ calls' = [calls EXCEPT ![p] = <<"cache_check", "return">>]
               /\ UNCHANGED <<cache, exc, entities, keyword_candidates, verdict, inflight>>
          ELSE IF found /\ db_evict # "ok" THEN fail(db_evict, <<"cache_check", "evict">>)
          ELSE \E ents \in extract_entities(c) :
               LET kws == _collect_keywords(c, ents)
                   rows == [g \in DOMAIN cache \ {h} |-> cache[g]]
                   trace == (IF found THEN <<"cache_check", "evict">> ELSE <<"cache_check">>)
                            \o <<"extract", "search">>
               IN /\ entities' = [entities EXCEPT ![p] = ents]
                  /\ keyword_candidates' = [keyword_candidates EXCEPT ![p] = kws]
                  /\ IF given \/ NEWSAPI_KEY
                     THEN /\ pc' = [pc EXCEPT ![p] = "search"]
                          /\ calls' = [calls EXCEPT ![p] =
                                trace \o (IF given THEN <<>> ELSE <<"news_request">>)]
                          /\ inflight' = [inflight EXCEPT ![p] = {"search"}]
                          /\ cache' = rows
                          /\ UNCHANGED <<resp, exc, verdict>>
                     ELSE AfterSearch(p, kws, NewsClient_search(FALSE, <<>>), trace, rows, "ok")

ErrorStatus == [kind |-> "status", articles |-> <<>>]

\* the awaited provider request of NewsClient.search completes; lines 60-106
\* and then 224 onwards.  On an error status the error is logged (line 65)
\* inside the `async with` block of line 47, and the return of line 66 leaves
\* the block, which awaits the close of the connection: the call is still in
\* progress and other requests may run.  On a 200 answer nothing is logged
\* before the close, and on an exception the handler of lines 104-106 logs
\* after it, so those continue to line 224 in the same step.
SearchReturn(p, reply, db) ==
    /\ pc[p] = "search"
    /\ IF reply.kind = "status"
       THEN /\ db = "ok"                       \* nothing is stored in this step
            /\ pc' = [pc EXCEPT ![p] = "closing"]
            /\ calls' = [calls EXCEPT ![p] = calls[p] \o <<"news_error">>]
            /\ UNCHANGED <<cache, resp, exc, verdict, inflight>>
       ELSE AfterSearch(p, keyword_candidates[p], NewsClient_search(NEWSAPI_KEY, reply),
                        calls[p] \o (IF NewsClient_failed(NEWSAPI_KEY, reply)
                                     THEN <<"news_error">> ELSE <<>>),
                        cache, db)
    /\ UNCHANGED <<NEWSAPI_KEY, OPENAI_API_KEY, request>>

\* the connection is closed and search returns [] (line 66); line 224 onwards
SearchClosed(p) ==
    /\ pc[p] = "closing"
    /\ AfterSearch(p, keyword_candidates[p], NewsClient_search(NEWSAPI_KEY, ErrorStatus),
                   calls[p], cache, "ok")
    /\ UNCHANGED <<NEWSAPI_KEY, OPENAI_API_KEY, request>>

Timeout == [kind |-> "timeout", content |-> <<>>]
NoRequest == [kind |-> "none", content |-> <<>>]    \* no key: nothing is sent

\* asyncio.wait_for returns or times out; lines 254-310.  reply is the
\* provider's answer, or "timeout" when the 10 s pass first.
AnalyzeReturn(p, reply, db) ==
    LET timeout == reply.kind = "timeout"
        j == IF timeout THEN TimeoutJudgment
             ELSE ResultJudgment(LLMClient_analyze(OPENAI_API_KEY, reply))
        p0 == j.probability
        llm_explanation == IF ~Truthy(j.explanation) THEN NoAnalysis ELSE j.explanation
        st == FallbackStatus(p0)
        trace == calls[p] \o (IF timeout THEN <<"timeout">> ELSE <<>>)
    IN /\ pc[p] = "analyze"
       /\ OPENAI_API_KEY <=> reply # NoRequest
       /\ Finish(p, st, p0, llm_explanation, <<>>, trace, cache, db)
       /\ inflight' = [inflight EXCEPT ![p] = {}]
       /\ UNCHANGED <<NEWSAPI_KEY, OPENAI_API_KEY, request, news_results, filtered_news>>

Next ==
    /\ UNCHANGED unit
    /\ \E p \in Procs :
        \/ \E text \in Texts, style \in Styles, db_read \in DbOutcomes, db_evict \in DbOutcomes :
              Begin(p, text, style, db_read, db_evict, FALSE)
        \/ \E reply \in NewsReplies, db \in DbOutcomes : SearchReturn(p, reply, db)
        \/ SearchClosed(p)
        \/ \E reply \in LLMReplies \cup {Timeout, NoRequest}, db \in DbOutcomes :
              AnalyzeReturn(p, reply, db)

Spec == Init /\ [][Next]_vars

\* The awaited calls end: client.get of the search runs under the client's
\* timeout of 10 s (news_client.py lines 21, 47), and the analysis runs under
\* asyncio.wait_for(..., timeout=10) (lines 249-252), which returns the result
\* or raises TimeoutError when the time is up.
SearchStep(p) ==
    /\ UNCHANGED unit
    /\ \/ \E reply \in NewsReplies, db \in DbOutcomes : SearchReturn(p, reply, db)
       \/ SearchClosed(p)
AnalyzeStep(p) ==
    /\ UNCHANGED unit
    /\ \E reply \in LLMReplies \cup {Timeout, NoRequest}, db \in DbOutcomes :
          AnalyzeReturn(p, reply, db)
Fairness == \A p \in Procs : WF_vars(SearchStep(p)) /\ WF_vars(AnalyzeStep(p))

SpecLive == Init /\ [][Next]_vars /\ Fairness

\* verify_claim(db, payload, news_client=...): line 185 uses the search
\* capability it is given in place of NewsClient().  What such a capability
\* returns is any list of NewsSource, and NewsSource (schemas.py 11-16) takes
\* any string as a title, the empty one too.
SrcTitled ==
    NewsSource([title |-> <<"A", "b", "c">>, description |-> None, url |-> SomeUrl,
                published_at |-> None, source_name |-> None])
SrcUntitled == [SrcTitled EXCEPT !.title = <<>>]
StubResults == SeqsUpTo({SrcTitled, SrcUntitled}, MaxArticles)

\* the table is empty; the given search capability is awaited at line 223
\* whether or not the key of the bundled client is set
StubInit ==
    /\ cache = EmptyCache
    /\ NEWSAPI_KEY \in BOOLEAN
    /\ OPENAI_API_KEY \in BOOLEAN
    /\ Idle
    /\ args = NoArgs
    /\ ret = <<>>

\* the awaited search of the given capability returns; line 224 onwards
StubSearchReturn(p, news, db) ==
    /\ pc[p] = "search"
    /\ AfterSearch(p, keyword_candidates[p], news, calls[p], cache, db)
    /\ UNCHANGED <<NEWSAPI_KEY, OPENAI_API_KEY, request>>

NextStub ==
    /\ UNCHANGED unit
    /\ \E p \in Procs :
        \/ \E text \in Texts, style \in Styles, db_read \in DbOutcomes, db_evict \in DbOutcomes :
              Begin(p, text, style, db_read, db_evict, TRUE)
        \/ \E news \in StubResults, db \in DbOutcomes : StubSearchReturn(p, news, db)
        \/ \E reply \in LLMReplies \cup {Timeout, NoRequest}, db \in DbOutcomes :
              AnalyzeReturn(p, reply, db)

SpecStub == StubInit /\ [][NextStub]_vars

\* ------------------------------------------ functions called on their own
\* Each of the specifications below draws the arguments of one function from
\* a set of inputs and applies the function once; no request is in progress.
NoRequests ==
    /\ cache = EmptyCache
    /\ NEWSAPI_KEY = FALSE
    /\ OPENAI_API_KEY = FALSE
    /\ Idle

Return(value) ==
    /\ ret = <<>>
    /\ ret' = <<value>>
    /\ UNCHANGED <<args, globals, pc, request, verdict, outcome, calls, inflight>>

\* _filter_news_by_keywords(news_list, keywords)
NewsOneHit ==
    NewsSource([title |-> <<"A", "b", "c">>, description |-> None, url |-> SomeUrl,
                published_at |-> None, source_name |-> None])
NewsTwoHits == [NewsOneHit EXCEPT !.source_name = <<"c", "d", "e">>]
NewsNoHit == [NewsOneHit EXCEPT !.title = <<"E", "e">>, !.description = <<"a", "b">>]
FilterNews == {NewsOneHit, NewsTwoHits, NewsNoHit}
FilterKeywords ==
    {<<"a", "b", "c">>, <<"b", "c", "d">>, <<"c", "d", "e">>, <<"d", "e", "a">>}

FilterInit ==
    /\ NoRequests
    /\ \E news_list \in SeqsUpTo(FilterNews, MaxArticles), keywords \in SUBSET FilterKeywords :
          args = [fn |-> "_filter_news_by_keywords", news_list |-> news_list,
                  keywords |-> keywords]
    /\ ret = <<>>

FilterCall == Return(_filter_news_by_keywords(args.news_list, args.keywords))

SpecFilter == FilterInit /\ [][FilterCall]_vars

\* the explanation of lines 285-289, for a verdict
FormatProbs == {NoProb, 0, 29, 30, 49, 50, 79, 80, 100}
FormatInit ==
    /\ NoRequests
    /\ \E style \in Styles, st \in Statuses, prob \in FormatProbs,
          base \in {NoAnalysis, LLMText} :
          args = [fn |-> "explain", style |-> style, claim |-> TextPlain, status |-> st,
                  probability |-> prob, entities |-> EmptyBag, news_count |-> 0,
                  base_explanation |-> base]
    /\ ret = <<>>

FormatCall ==
    Return(Explain(args.style, args.claim, args.status, args.probability, args.entities,
                   args.news_count, args.base_explanation))

SpecFormat == FormatInit /\ [][FormatCall]_vars

\* _hash_claim(text, style), for two requests
HashTexts ==
    {TextPlain, TextPadded, <<"\t">> \o TextPlain, <<"a", "b", " ", " ", "c", "d">>,
     TextPlain \o StyleBytes("formal"), TextPlain \o StyleBytes("simple")}
HashRequests == [text : HashTexts, style : Styles]

HashInit ==
    /\ NoRequests
    /\ \E a \in HashRequests, b \in HashRequests : args = [fn |-> "_hash_claim", a |-> a, b |-> b]
    /\ ret = <<>>

HashCall ==
    Return(<<_hash_claim(args.a.text, args.a.style), _hash_claim(args.b.text, args.b.style)>>)

SpecHash == HashInit /\ [][HashCall]_vars

\* NewsClient.search(query)
ArtFull ==
    [title |-> <<"A", "b", "c">>, description |-> <<"a", "b">>, content |-> <<"c", "d">>,
     url |-> SomeUrl, publishedAt |-> SomeDate, source |-> "object",
     source_name |-> <<"d", "e">>]
ArtNoDate == [ArtFull EXCEPT !.publishedAt = None]
ArtNullSource == [ArtBare EXCEPT !.source = "null"]
ArtBadDate == [ArtFull EXCEPT !.publishedAt = BadDate]
SearchArticles == Articles \cup {ArtFull, ArtNoDate, ArtNullSource, ArtBadDate}
SearchReplies ==
    {[kind |-> "status", articles |-> <<>>], [kind |-> "exception", articles |-> <<>>]}
    \cup {[kind |-> "ok", articles |-> as] : as \in SeqsUpTo(SearchArticles, MaxArticles)}

SearchInit ==
    /\ NoRequests
    /\ \/ args = [fn |-> "search", api_key |-> FALSE,
                  reply |-> [kind |-> "none", articles |-> <<>>]]
       \/ \E reply \in SearchReplies : args = [fn |-> "search", api_key |-> TRUE, reply |-> reply]
    /\ ret = <<>>

SearchCall == Return(NewsClient_search(args.api_key, args.reply))

SpecSearch == SearchInit /\ [][SearchCall]_vars

\* LLMClient.analyze(prompt) and LLMClient._parse_llm_response(content)
UnitProbs ==
    {[kind |-> "num", v |-> x] : x \in {-10, 0, 39, 100, 150}}
    \cup {[kind |-> "numstr", v |-> 70]}
    \cup {[kind |-> k, v |-> 0] : k \in {"huge", "missing", "null", "text"}}
UnitExplanations == {LLMText, None, <<>>}
UnitObjects == {Obj(pr, ex) : pr \in UnitProbs, ex \in UnitExplanations}
UnitContents ==
    Contents \cup {<<o>> : o \in UnitObjects}
    \cup {<<LBrace, Prose, RBrace>>, <<LBrace, Prose>>, <<Value, Prose>>,
          <<Prose, SomeObj, Prose, LBrace>>, <<Prose, SomeObj, RBrace>>}
UnitReplies ==
    {[kind |-> "status", content |-> <<>>], [kind |-> "exception", content |-> <<>>]}
    \cup {[kind |-> "ok", content |-> c] : c \in UnitContents}

AnalyzeInit ==
    /\ NoRequests
    /\ \/ args = [fn |-> "analyze", api_key |-> FALSE, reply |-> NoRequest]
       \/ \E reply \in UnitReplies : args = [fn |-> "analyze", api_key |-> TRUE, reply |-> reply]
       \/ \E content \in UnitContents : args = [fn |-> "_parse_llm_response", content |-> content]
    /\ ret = <<>>

AnalyzeCall ==
    /\ args.fn = "analyze"
    /\ Return(LLMClient_analyze(args.api_key, args.reply))

ParseCall ==
    /\ args.fn = "_parse_llm_response"
    /\ Return(_parse_llm_response(args.content))

SpecAnalyze == AnalyzeInit /\ [][AnalyzeCall \/ ParseCall]_vars

\* ================================================================ claims
Done(p) == pc[p] = "done"
Raised(p) == pc[p] = "raised"
Logged(p, step) == step \in Range(calls[p])
PersistenceErrors == {"OperationalError", "IntegrityError"}

\* C1. Idempotence: when a verify call has returned and a call with the same
\* (text, style) is made next, and the table answers the lookup, that call
\* returns cached = TRUE and the Verdict the first call returned, and makes
\* neither a search nor a fallback analysis.
C1_Idempotence ==
    [][\A p, q \in Procs :
          (/\ p # q /\ Done(p)
           /\ pc[q] = "idle" /\ pc'[q] # "idle"
           /\ payload'[q] = payload[p]
           /\ exc'[q] # "OperationalError")
          => (/\ pc'[q] = "done"
              /\ resp'[q].cached
              /\ resp'[q].analysis = resp[p].analysis
              /\ Count(calls'[q], "search") = 0
              /\ Count(calls'[q], "analyze") = 0)]_vars

\* a miss that stored a confirmed verdict with sources, then the repeat served
C1_Witness ==
    \E p, q \in Procs :
        /\ p # q /\ Done(p) /\ Done(q) /\ payload[p] = payload[q]
        /\ ~resp[p].cached /\ resp[q].cached
        /\ resp[p].analysis.matched_sources # <<>>
        /\ resp[q].analysis = resp[p].analysis

\* C2. On a cache miss that returns, the status is "confirmed" exactly when
\* the filtered list is not empty, and then the probability is 0.9 and no
\* fallback analysis was made.
C2_ConfirmedIffCorroborated ==
    \A p \in Procs :
        (Done(p) /\ ~resp[p].cached) =>
            /\ (resp[p].analysis.status = "confirmed") <=> (filtered_news[p] # <<>>)
            /\ resp[p].analysis.status = "confirmed" =>
                  (resp[p].analysis.probability = 90 /\ ~Logged(p, "analyze"))

C2_Witness ==
    \E p \in Procs :
        /\ Done(p) /\ ~resp[p].cached /\ filtered_news[p] # <<>>
        /\ resp[p].analysis.status = "confirmed" /\ resp[p].analysis.probability = 90

\* C3. In the fallback branch (filtered list empty) the status is "uncertain"
\* when the probability is 0.4 or more and "not_found" when it is less, and
\* nothing else.
C3_FallbackThreshold ==
    \A p \in Procs :
        (Done(p) /\ ~resp[p].cached /\ filtered_news[p] = <<>>) =>
            LET a == resp[p].analysis
            IN /\ a.status \in {"uncertain", "not_found"}
               /\ a.probability >= 40 => a.status = "uncertain"
               /\ a.probability < 40 => a.status = "not_found"

\* both sides of the threshold: 0.40 gives uncertain, 0.39 gives not_found
C3_Witness ==
    \E p, q \in Procs :
        /\ Done(p) /\ Logged(p, "analyze") /\ resp[p].analysis.probability = 40
        /\ resp[p].analysis.status = "uncertain"
        /\ Done(q) /\ Logged(q, "analyze") /\ resp[q].analysis.probability = 39
        /\ resp[q].analysis.status = "not_found"

\* C4. verify answers from the cache exactly when a row exists and
\* _is_cache_entry_modern holds for it; when the row exists and is not modern
\* (and the table is up) verify deletes it, runs the pipeline, returns
\* cached = FALSE and no error surfaces.
C4_HitIffModern ==
    \A p \in Procs :
        /\ (Done(p) /\ resp[p].cached) => cached[p] = "modern"
        /\ cached[p] = "modern" => (Done(p) /\ resp[p].cached)
        /\ (cached[p] = "legacy" /\ pc[p] \in {"done", "raised"}
              /\ exc[p] # "OperationalError")
           => (Done(p) /\ ~resp[p].cached /\ Logged(p, "evict")
               /\ claim_hash[p] \in DOMAIN cache)

\* C5. With the table up, verify never raises: whatever the cache held, the
\* search gave and the analyzer did, the call returns a Verdict.
C5_NeverRaises ==
    \A p \in Procs : Raised(p) => exc[p] = "OperationalError"

\* C6. Every response carries the request's text trimmed and the request's
\* style, a status among the three, and an explanation that is not empty.
Trimmed(c, t) ==
    /\ c # <<>> => (c[1] \notin WhiteSpace /\ c[Len(c)] \notin WhiteSpace)
    /\ \E i \in 0..Len(t) :
          /\ i + Len(c) <= Len(t)
          /\ SubSeq(t, i + 1, i + Len(c)) = c
          /\ \A k \in (1..i) \cup ((i + Len(c) + 1)..Len(t)) : t[k] \in WhiteSpace

C6_ResponseShape ==
    \A p \in Procs :
        Done(p) =>
            /\ Trimmed(resp[p].claim, payload[p].text)
            /\ resp[p].style = payload[p].style
            /\ resp[p].analysis.status \in Statuses
            /\ resp[p].analysis.explanation # <<>>

\* a padded text answered on a miss, and then on a hit
C6_Witness ==
    \E p, q \in Procs :
        /\ Done(p) /\ payload[p].text = TextPadded /\ ~resp[p].cached
        /\ Done(q) /\ payload[q].text = TextPadded /\ resp[q].cached

\* C7. A failure while storing reaches the caller and no Verdict is returned,
\* and nothing but the persistence layer makes verify raise.
C7_OnlyStoreFailureSurfaces ==
    \A p \in Procs :
        Raised(p) => (resp[p] = NoResp /\ exc[p] \in PersistenceErrors)

\* C8. Two requests with one fingerprint that both saw a miss both run the
\* pipeline, both store and both return; the second write does not fail and
\* the table holds one row for the key.
C8_ConcurrentMissesBothReturn ==
    \A p, q \in Procs :
        (/\ p # q /\ claim_hash[p] = claim_hash[q]
         /\ cached[p] \in {"absent", "legacy"} /\ cached[q] \in {"absent", "legacy"}
         /\ Logged(p, "store") /\ Logged(q, "store")
         /\ exc[p] # "OperationalError" /\ exc[q] # "OperationalError")
        => (Done(p) /\ Done(q) /\ claim_hash[p] \in DOMAIN cache)

\* C9. When wait_for times out verify does not fail on it: the judgment is
\* probability 0.3 with the timeout explanation, and no other outcome of the
\* analyzer gives that explanation.
C9_TimeoutJudgment ==
    \A p \in Procs :
        /\ (Logged(p, "timeout") /\ Raised(p)) => calls[p][Len(calls[p])] = "store"
        /\ (Logged(p, "timeout") /\ Done(p)) =>
              /\ resp[p].analysis.probability = 30
              /\ explanation_base[p] = TimedOut
        /\ (Logged(p, "analyze") /\ ~Logged(p, "timeout") /\ Done(p)) =>
              explanation_base[p] # TimedOut

\* a timed out request, and one whose analyzer failed in each other way
C9_Witness ==
    \E p, q \in Procs :
        /\ Done(p) /\ Logged(p, "timeout") /\ explanation_base[p] = TimedOut
        /\ Done(q) /\ ~Logged(q, "timeout")
        /\ explanation_base[q] \in {NoResult, Unparsable, Unavailable("ConnectError"),
                                    Unavailable("AttributeError")}

\* C10. A request makes at most one search and at most one fallback analysis;
\* the analysis starts after the search has returned and only with an empty
\* filtered list; the two are never in progress together; a hit makes neither.
C10_Sequencing ==
    \A p \in Procs :
        /\ Count(calls[p], "search") <= 1
        /\ Count(calls[p], "analyze") <= 1
        /\ Cardinality(inflight[p]) <= 1
        /\ Logged(p, "analyze") =>
              /\ \E i, j \in 1..Len(calls[p]) :
                    i < j /\ calls[p][i] = "search" /\ calls[p][j] = "analyze"
              /\ "search" \notin inflight[p]
              /\ filtered_news[p] = <<>>
        /\ cached[p] = "modern" => (~Logged(p, "search") /\ ~Logged(p, "analyze"))

\* one request in its analysis after its search, another answered from the cache
C10_Witness ==
    \E p, q \in Procs :
        /\ inflight[p] = {"analyze"} /\ Logged(p, "search")
        /\ Done(q) /\ cached[q] = "modern" /\ calls[q] = <<"cache_check", "return">>

\* C11. _filter_news_by_keywords keeps an item exactly when its keyword hits
\* over its title, description, summary and source name reach the threshold (1
\* for a keyword set of 3 or fewer, 2 for a larger one), keeps every item when
\* the keyword set is empty, keeps the input order, and raises nothing.
ClaimedText(item) ==
    LowerStr(Join(<<" ">>, SelectSeq(<<item.title, item.description, item.source_name>>, Truthy)))
ClaimedHits(item, keywords) ==
    Cardinality({kw \in keywords : Contains(ClaimedText(item), kw)})
C11_FilterContract ==
    ret # <<>> =>
        LET keywords == args.keywords
            min_hits == IF Cardinality(keywords) <= 3 THEN 1 ELSE 2
        IN /\ ~ret[1].raised
           /\ ret[1].value =
                 IF keywords = {} THEN args.news_list
                 ELSE SelectSeq(args.news_list,
                                LAMBDA item : ClaimedHits(item, keywords) >= min_hits)

\* C12. In the confirmed branch the Verdict's matched_sources are the first
\* items of the filtered list, in its order, at most MaxSources of them:
\* min(n, MaxSources) items when n passed the filter, with status "confirmed"
\* and probability 0.9.
C12_MatchedSourcesCapped ==
    \A p \in Procs :
        (Done(p) /\ ~resp[p].cached /\ filtered_news[p] # <<>>) =>
            LET n == Len(filtered_news[p])
                k == IF n < MaxSources THEN n ELSE MaxSources
                a == resp[p].analysis
            IN /\ Len(a.matched_sources) = k
               /\ a.matched_sources = SubSeq(filtered_news[p], 1, k)
               /\ a.status = "confirmed"
               /\ a.probability = 90

\* three items passed and three are reported; six passed and five are reported
C12_Witness ==
    \E p, q \in Procs :
        /\ Done(p) /\ ~resp[p].cached /\ Len(filtered_news[p]) = 3
        /\ Len(resp[p].analysis.matched_sources) = 3
        /\ Done(q) /\ ~resp[q].cached /\ Len(filtered_news[q]) = MaxSources + 1
        /\ Len(resp[q].analysis.matched_sources) = MaxSources
        /\ resp[q].analysis.matched_sources[2] # resp[q].analysis.matched_sources[1]

\* C13. When nothing passed the filter and the analyzer is unavailable (no
\* credential, an error status, a transport exception), verify returns
\* "not_found" with probability 0.3 and no matched sources, cached = FALSE;
\* only the persistence layer can make that call fail; and the same request
\* made next is answered with cached = TRUE and the same Verdict.
AnalyzerUnavailable == {NoResult, Unavailable("ConnectError")}
C13_AnalyzerUnavailable ==
    [][\A p \in Procs :
          /\ (pc[p] = "analyze" /\ pc'[p] = "raised") => exc'[p] \in PersistenceErrors
          /\ (pc[p] = "analyze" /\ pc'[p] = "done" /\ ~OPENAI_API_KEY) =>
                explanation_base'[p] = NoResult
          /\ (pc[p] = "analyze" /\ pc'[p] = "done"
                /\ explanation_base'[p] \in AnalyzerUnavailable) =>
                /\ resp'[p].analysis.status = "not_found"
                /\ resp'[p].analysis.probability = 30
                /\ resp'[p].analysis.matched_sources = <<>>
                /\ ~resp'[p].cached
          /\ \A q \in Procs \ {p} :
                (/\ Done(p) /\ ~resp[p].cached /\ Logged(p, "analyze")
                 /\ explanation_base[p] \in AnalyzerUnavailable
                 /\ pc[q] = "idle" /\ pc'[q] # "idle"
                 /\ payload'[q] = payload[p]
                 /\ exc'[q] # "OperationalError")
                => (/\ pc'[q] = "done" /\ resp'[q].cached
                    /\ resp'[q].analysis = resp[p].analysis)]_vars

\* no credential: the first call answered not_found 0.3, the repeat from the cache
C13_Witness ==
    \E p, q \in Procs :
        /\ ~OPENAI_API_KEY
        /\ Done(p) /\ ~resp[p].cached /\ explanation_base[p] = NoResult
        /\ resp[p].analysis.status = "not_found" /\ resp[p].analysis.probability = 30
        /\ resp[p].analysis.matched_sources = <<>>
        /\ Done(q) /\ resp[q].cached /\ payload[q] = payload[p]
        /\ resp[q].analysis = resp[p].analysis

Analyzed == ret # <<>> /\ args.fn = "analyze"
Parsed == ret # <<>> /\ args.fn = "_parse_llm_response"
NoCredentialOrStatus == ~args.api_key \/ args.reply.kind = "status"

\* C14 as stated. analyze always returns a (probability, explanation) pair,
\* never an absent result: with no credential and on an error status the pair
\* is (0.3, an explanation saying that the AI analysis is unavailable).
C14_AlwaysAPair ==
    Analyzed =>
        /\ ret[1].kind = "pair"
        /\ NoCredentialOrStatus => (ret[1].probability = 30 /\ Truthy(ret[1].explanation))

\* C14 amended. analyze raises nothing and returns either a pair with a
\* probability in [0,1] and an explanation that is not empty, or an absent
\* result; the result is absent exactly when there is no credential or the
\* provider answered with an error status, and the caller (verify_claim, lines
\* 254-256) makes of the absent result the judgment (0.3, "no results").
C14_PairOrAbsent ==
    Analyzed =>
        /\ ret[1].kind \in {"pair", "none"}
        /\ ret[1].kind = "none" <=> NoCredentialOrStatus
        /\ ret[1].kind = "pair" =>
              (ret[1].probability \in 0..100 /\ Truthy(ret[1].explanation))
        /\ ret[1].kind = "none" => ResultJudgment(ret[1]) = Pair(30, NoResult)

\* the call made without a credential has returned the absent result
C14_Witness ==
    Analyzed /\ ~args.api_key /\ ret[1] = NoneResult

\* C15. For a response text that is no decodable judgment (no object in it,
\* braces that do not decode, or a JSON value that is no object) analyze
\* returns a pair with probability 0.3 and raises nothing.
NoObject(content) == \A i \in 1..Len(content) : content[i].k # "obj"
UndecodableBraces(content) ==
    /\ ~Decodes(content)
    /\ JsonPatternMatch(content) # <<>>
    /\ ~Decodes(JsonPatternMatch(content))
C15_MalformedOutputDegrades ==
    (/\ Analyzed /\ args.api_key /\ args.reply.kind = "ok"
     /\ NoObject(args.reply.content) \/ UndecodableBraces(args.reply.content))
    => (ret[1].kind = "pair" /\ ret[1].probability = 30)

\* a JSON list was the whole answer: the AttributeError became the judgment
C15_Witness ==
    /\ Analyzed /\ args.api_key /\ args.reply = [kind |-> "ok", content |-> <<Value>>]
    /\ ret[1] = Pair(30, Unavailable("AttributeError"))

\* C16. For every decoded object _parse_llm_response returns a probability in
\* [0,1]: a number below 0 gives 0, one above 1 gives 1, one in range itself,
\* a value that is no number (missing, null, other text) gives 0.5; and an
\* explanation that is empty or missing is replaced by the placeholder.
C16_ProbabilityClamped ==
    (Parsed /\ Len(args.content) = 1 /\ args.content[1].k = "obj") =>
        LET raw == args.content[1].probability
            given == args.content[1].explanation
        IN /\ ret[1].kind = "pair"
           /\ ret[1].probability \in 0..100
           /\ (raw.kind \in {"num", "numstr"} /\ raw.v < 0) => ret[1].probability = 0
           /\ (raw.kind \in {"num", "numstr"} /\ raw.v > 100) => ret[1].probability = 100
           /\ raw.kind = "huge" => ret[1].probability = 100
           /\ (raw.kind \in {"num", "numstr"} /\ raw.v \in 0..100) =>
                 ret[1].probability = raw.v
           /\ raw.kind \in {"missing", "null", "text"} => ret[1].probability = 50
           /\ ret[1].explanation # <<>>
           /\ ret[1].explanation = IF Truthy(given) THEN given ELSE EmptyLLMExplanation

\* C17. Every article of a response that has a title becomes a NewsSource and
\* is returned by search, whichever of its other fields (description, content,
\* url, publication date, source name) are missing; a missing field makes
\* search drop neither that article nor the others.
C17_MissingFieldsKept ==
    (/\ ret # <<>> /\ args.api_key /\ args.reply.kind = "ok"
     /\ \A i \in 1..Len(args.reply.articles) :
           /\ Truthy(args.reply.articles[i].title)
           /\ args.reply.articles[i].publishedAt # BadDate)
    => (/\ Len(ret[1]) = Len(args.reply.articles)
        /\ \A i \in 1..Len(args.reply.articles) :
              /\ ret[1][i].title = args.reply.articles[i].title
              /\ ret[1][i].url = args.reply.articles[i].url
              /\ ret[1][i].description = args.reply.articles[i].description)

\* C18. search never raises to verify_claim and never retries: without a
\* credential it returns an empty list and sends nothing; when the request
\* fails (an error status, an exception) it returns an empty list after that
\* one request; and verify_claim then goes on to the fallback analysis.
C18_SearchSoftFailure ==
    \A p \in Procs :
        /\ Count(calls[p], "news_request") <= 1
        /\ ~NEWSAPI_KEY => ~Logged(p, "news_request")
        /\ Logged(p, "news_error") => Count(calls[p], "news_request") = 1
        /\ Raised(p) =>
              calls[p][Len(calls[p])] \notin {"search", "news_request", "news_error"}
        /\ pc[p] = "closing" =>
              (calls[p][Len(calls[p])] = "news_error" /\ inflight[p] = {"search"})
        /\ (/\ Logged(p, "search") /\ pc[p] \notin {"search", "closing"}
            /\ ~NEWSAPI_KEY \/ Logged(p, "news_error")) =>
              /\ news_results[p] = <<>>
              /\ filtered_news[p] = <<>>
              /\ Logged(p, "analyze")
              /\ exc[p] # "AttributeError"

\* a request with keywords whose search failed after its one request and which
\* was answered by the fallback analysis
C18_Witness ==
    \E p \in Procs :
        /\ NEWSAPI_KEY /\ Logged(p, "news_error") /\ Count(calls[p], "news_request") = 1
        /\ keyword_candidates[p] # {}
        /\ Done(p) /\ Logged(p, "analyze") /\ resp[p].analysis.status = "not_found"

\* C19. The fingerprint is a function of the trimmed text and the style: two
\* requests have the same fingerprint exactly when their texts are the same
\* but for leading and trailing whitespace and their styles are the same
\* (sha256 taken as injective on the bytes it is fed).
SameTrimmed(t1, t2) ==
    \E i \in 1..Len(t1), j \in 1..Len(t1) :
        Trimmed(SubSeq(t1, i, j), t1) /\ Trimmed(SubSeq(t1, i, j), t2)
C19_FingerprintInjective ==
    ret # <<>> =>
        ((ret[1][1] = ret[1][2]) <=>
            (SameTrimmed(args.a.text, args.b.text) /\ args.a.style = args.b.style))

\* a text and the same text padded, one style, one fingerprint
C19_Witness ==
    /\ ret # <<>> /\ args.a.text = TextPlain /\ args.b.text = TextPadded
    /\ args.a.style = args.b.style /\ ret[1][1] = ret[1][2]

\* the row the lookup of a request that has just arrived found
Lookup(q) == pc[q] = "idle" /\ pc'[q] # "idle" /\ exc'[q] # "OperationalError"
                /\ claim_hash'[q] \in DOMAIN cache
Accepted(q) == cached'[q] = "modern"
Served(q) == pc'[q] = "done" /\ resp'[q].cached

\* an analysis whose matched_sources are absent, or a list of objects, none a
\* bare string, each with a title that is not empty
TitledSources(data) ==
    /\ data.analysis_is_dict
    /\ \/ data.analysis.ms = "absent"
       \/ /\ data.analysis.ms = "list"
          /\ \A i \in 1..Len(data.analysis.matched_sources) :
                /\ data.analysis.matched_sources[i].is_dict
                /\ Truthy(ItemGet(data.analysis.matched_sources[i], "title"))

\* C20 as stated. A row is served only if its matched sources are absent or
\* titled objects, and every row of that shape is accepted by
\* _is_cache_entry_modern.
C20_ServedIffTitled ==
    [][\A q \in Procs :
          Lookup(q) =>
              /\ Served(q) => TitledSources(cache[claim_hash'[q]])
              /\ TitledSources(cache[claim_hash'[q]]) => Accepted(q)]_vars

\* C20 amended. A row is served only if _is_cache_entry_modern accepted it,
\* and it is accepted exactly when its matched sources are absent or are
\* objects that each have a title that is not empty and the key "url": a row
\* with a titled item that lacks the url key is rejected and evicted.
UrlKeyed(data) ==
    \A i \in 1..Len(data.analysis.matched_sources) :
        "url" \in data.analysis.matched_sources[i].keys
C20_ServedIffTitledWithUrl ==
    [][\A q \in Procs :
          Lookup(q) =>
              LET row == cache[claim_hash'[q]]
              IN /\ Served(q) => Accepted(q)
                 /\ Accepted(q) <=> (TitledSources(row) /\ UrlKeyed(row))
                 /\ ~Accepted(q) =>
                       (cached'[q] = "legacy" /\ claim_hash'[q] \notin DOMAIN cache')]_vars

\* a row that was rejected and replaced, and the new row served to the repeat
C20_Witness ==
    \E p, q \in Procs :
        /\ cached[p] = "legacy" /\ Logged(p, "evict") /\ Done(p) /\ ~resp[p].cached
        /\ Done(q) /\ cached[q] = "modern" /\ resp[q].cached
        /\ claim_hash[q] = claim_hash[p]

\* C21. Parsing has two stages: a response that is one JSON object is decoded
\* as it is; in a response made of prose, one well-formed object and further
\* text, braces included, the object is found and decoded; so in both cases
\* analyze returns what it returns for the object alone.
ProseObjectText(content, i) ==
    /\ content[i].k = "obj"
    /\ \A j \in 1..(i - 1) : content[j].k = "prose"
    /\ \A j \in (i + 1)..Len(content) : content[j].k \in {"prose", "lbrace", "rbrace"}
C21_FirstObjectDecoded ==
    (Analyzed /\ args.api_key /\ args.reply.kind = "ok") =>
        \A i \in 1..Len(args.reply.content) :
            ProseObjectText(args.reply.content, i) =>
                ret[1] = LLMClient_analyze(TRUE, [kind |-> "ok",
                                                  content |-> <<args.reply.content[i]>>])

\* C22. Every run of verify_claim goes through its steps in one order: the
\* cache check; on a miss the extraction, the search, the filter, the fallback
\* analysis when nothing was corroborated, the formatting, one store, the
\* return with cached = FALSE.  A run that has returned a miss has gone through
\* all of them and its row is in the table; a hit stores nothing.
MissOrder == <<"cache_check", "extract", "search", "filter", "analyze", "format", "store", "return">>
Incidental == {"evict", "news_request", "news_error", "timeout"}
Steps(trace) == SelectSeq(trace, LAMBDA step : step \notin Incidental)
\* s is t with some of its elements left out, order kept
RECURSIVE IsSubSeq(_, _)
IsSubSeq(s, t) ==
    IF s = <<>> THEN TRUE
    ELSE IF t = <<>> THEN FALSE
    ELSE IF Head(s) = Head(t) THEN IsSubSeq(Tail(s), Tail(t))
    ELSE IsSubSeq(s, Tail(t))
C22_OrchestratorOrder ==
    \A p \in Procs :
        /\ calls[p] # <<>> => calls[p][1] = "cache_check"
        /\ IsSubSeq(Steps(calls[p]), MissOrder)
        /\ Count(calls[p], "store") <= 1
        /\ Logged(p, "evict") => (calls[p][2] = "evict" /\ Count(calls[p], "evict") = 1)
        /\ (Done(p) /\ ~resp[p].cached) =>
              /\ Steps(calls[p]) \in
                    {MissOrder, SelectSeq(MissOrder, LAMBDA step : step # "analyze")}
              /\ Logged(p, "analyze") <=> filtered_news[p] = <<>>
              /\ claim_hash[p] \in DOMAIN cache
              /\ cache[claim_hash[p]] = ToJson(resp[p])
        /\ (Done(p) /\ resp[p].cached) => calls[p] = <<"cache_check", "return">>

\* a miss that evicted, searched, analyzed under a timeout and stored
C22_Witness ==
    \E p \in Procs :
        /\ Done(p) /\ ~resp[p].cached
        /\ calls[p] = <<"cache_check", "evict", "extract", "search", "news_request",
                         "news_error", "filter", "analyze", "timeout", "format", "store",
                         "return">>

\* C23. Every request that has arrived eventually ends, with a Verdict
\* returned or with a failure of the persistence layer: the search returns, and
\* an analyzer that does not answer is cut off by the timeout.
C23_EventuallyVerdict ==
    \A p \in Procs :
        (pc[p] # "idle") ~> (Done(p) \/ (Raised(p) /\ exc[p] \in PersistenceErrors))

\* every request that has arrived eventually ends, in a return or a raise
EventuallyEnds ==
    \A p \in Procs : (pc[p] # "idle") ~> (Done(p) \/ Raised(p))

\* C24. The simple explanation is a clause chosen by the status followed by a
\* phrase chosen by the band of the probability (0.8 and more, 0.5 and more,
\* 0.3 and more, less), and the fixed message when there is no probability;
\* nothing else enters it, so the analyzer's text never changes it.
StatusClause(st) ==
    CASE st = "confirmed" -> "Found confirmation in the news."
      [] st = "not_found" -> "Found no confirmation in the news. The event is unlikely."
      [] st = "uncertain" -> "No direct confirmation."
BandPhrase(prob) ==
    CASE prob >= 80 -> "Probably true."
      [] prob >= 50 /\ prob < 80 -> "Looks true, but not certain."
      [] prob >= 30 /\ prob < 50 -> "Doubtful."
      [] prob < 30 -> "Unlikely."
C24_SimpleExplanation ==
    (ret # <<>> /\ args.style = "simple") =>
        ret[1] = IF args.probability = NoProb THEN <<"No data for an estimate.">>
                 ELSE <<StatusClause(args.status), " ", BandPhrase(args.probability)>>

\* probability 0.8, on the edge of the highest band
C24_Witness ==
    /\ ret # <<>> /\ args.style = "simple" /\ args.probability = 80
    /\ args.base_explanation = LLMText
    /\ ret[1][3] = "Probably true."

\* C25. Every Verdict verify computes, and every row it writes, is consistent:
\* the status is "confirmed" exactly when there are matched sources, and then
\* the probability is 0.9; "uncertain" has probability 0.4 or more and
\* "not_found" less than 0.4, both without sources; the probability is in
\* [0, 1].
Consistent(st, prob, n) ==
    /\ st \in Statuses
    /\ prob >= 0 /\ prob <= 100
    /\ (st = "confirmed") <=> (n > 0)
    /\ st = "confirmed" => prob = 90
    /\ st = "uncertain" => prob >= 40
    /\ st = "not_found" => prob < 40
Computes(p) == pc[p] # "done" /\ pc'[p] = "done" /\ ~resp'[p].cached
C25_VerdictConsistent ==
    [][/\ \A p \in Procs :
             Computes(p) =>
                LET a == resp'[p].analysis
                IN Consistent(a.status, a.probability, Len(a.matched_sources))
       /\ \A h \in DOMAIN cache' :
             (h \notin DOMAIN cache \/ cache'[h] # cache[h]) =>
                LET a == cache'[h].analysis
                IN /\ a.ms = "list"
                   /\ Consistent(a.status, a.probability, Len(a.matched_sources))
                   /\ \E p \in Procs : Computes(p) /\ cache'[h] = ToJson(resp'[p])]_vars

\* one request confirmed with its sources, another uncertain at exactly 0.4,
\* both rows in the table
C25_Witness ==
    \E p, q \in Procs :
        /\ Done(p) /\ ~resp[p].cached /\ resp[p].analysis.status = "confirmed"
        /\ resp[p].analysis.matched_sources # <<>>
        /\ Done(q) /\ ~resp[q].cached /\ resp[q].analysis.status = "uncertain"
        /\ resp[q].analysis.probability = 40
        /\ claim_hash[p] \in DOMAIN cache /\ claim_hash[q] \in DOMAIN cache
        /\ cache[claim_hash[p]].analysis.status = "confirmed"
        /\ cache[claim_hash[q]].analysis.status = "uncertain"

\* C26. Every row verify itself writes passes _is_cache_entry_modern when it
\* is next read, whatever items the search returned (an item with an empty
\* title included): starting from an empty table, no row fails the check and
\* no lookup finds a row to evict.
C26_OwnEntriesValid ==
    /\ \A h \in DOMAIN cache : _is_cache_entry_modern(cache[h])
    /\ \A p \in Procs : cached[p] # "legacy"

\* C27. Frame of the shared table. A step of the call for fingerprint f
\* creates, changes or deletes no row but that of f; a hit leaves the whole
\* table as it was; a row whose matched sources are absent or titled objects
\* with the url key is never removed or changed by any step, and every lookup
\* of it is answered from it.
Acts(p) == pc'[p] # pc[p]
ValidRow(data) == TitledSources(data) /\ UrlKeyed(data)
C27_CacheFrame ==
    [][/\ \A h \in DOMAIN cache \cup DOMAIN cache' :
             (h \notin DOMAIN cache \/ h \notin DOMAIN cache' \/ cache'[h] # cache[h]) =>
                \E p \in Procs : Acts(p) /\ claim_hash'[p] = h
       /\ \A p \in Procs : (pc[p] = "idle" /\ Served(p)) => cache' = cache
       /\ \A h \in DOMAIN cache :
             ValidRow(cache[h]) => (h \in DOMAIN cache' /\ cache'[h] = cache[h])
       /\ \A q \in Procs :
             (Lookup(q) /\ ValidRow(cache[claim_hash'[q]])) =>
                (Served(q) /\ resp'[q] = FromJson(cache[claim_hash'[q]], TRUE))]_vars
====
